---- MODULE Spec2Model ----
(***************************************************************************)
(* Model of append_change_summary.py: one invocation of main() reads the   *)
(* repository through git queries, resolves the range start..end, formats  *)
(* an entry, appends it to the note file and persists the checkpoint.      *)
(*                                                                         *)
(* Text is modelled by TLA+ strings (Len, \o and SubSeq act on them), so   *)
(* strip, splitlines, slicing and the newline handling are computed.       *)
(* Python's None is the sentinel string None, which no query or file       *)
(* produces; a None list is the one-element list NoneList.                 *)
(***************************************************************************)
EXTENDS Integers, Sequences, FiniteSets, TLC

\* ------------------------------------------------------------------ bounds
\* The repository holds the commits c0 .. cMaxCommit (c0 is origin/main).
MaxCommit == 1
\* Invocations of main() in one behaviour.
MaxRuns == 2
\* Longest commit list and file list handed to the formatter on its own.
MaxItems == 3
\* Entries appended to one note, one after the other.
MaxEntries == 3

\* ------------------------------------------------------- program constants
DefaultMaxCommits == 20
DefaultMaxFiles == 50
ShortShaLen == 7
ExitMissingNote == 2
ExitOk == 0
\* Status of an interpreter that ends on an uncaught exception.
ExitUncaught == 1
\* Status argparse exits with when it rejects the command line.
ExitUsage == 2

\* ------------------------------------------------------------ Python values
None == "<None>"
NoneList == <<None>>
DefaultBaseRef == "origin/main"

\* bool(x) of an optional string: None and "" are false.
Truthy(s) == s # None /\ s # ""
\* bool(x) of an optional list: None and [] are false.
TruthyList(l) == l # NoneList /\ l # <<>>
\* a or b, for optional strings.
Or(a, b) == IF Truthy(a) THEN a ELSE b

Min(a, b) == IF a <= b THEN a ELSE b
Max(a, b) == IF a >= b THEN a ELSE b

\* ------------------------------------------------------------------ strings
Char(s, i) == SubSeq(s, i, i)
IsSpace(ch) == ch \in {" ", "\n", "\t"}

RECURSIVE LStrip(_)
LStrip(s) ==
  IF Len(s) > 0 /\ IsSpace(Char(s, 1)) THEN LStrip(SubSeq(s, 2, Len(s))) ELSE s

RECURSIVE RStrip(_)
RStrip(s) ==
  IF Len(s) > 0 /\ IsSpace(Char(s, Len(s))) THEN RStrip(SubSeq(s, 1, Len(s) - 1)) ELSE s

Strip(s) == LStrip(RStrip(s))

StartsWith(s, pre) == Len(s) >= Len(pre) /\ SubSeq(s, 1, Len(pre)) = pre
EndsWith(s, suf) == Len(s) >= Len(suf) /\ SubSeq(s, Len(s) - Len(suf) + 1, Len(s)) = suf

\* s[:n] for a string and for a list (n >= 0).
Prefix(s, n) == SubSeq(s, 1, Min(n, Len(s)))

\* Index of the first occurrence of the character ch in s at or after i; 0 if none.
RECURSIVE Find(_, _, _)
Find(s, ch, i) ==
  IF i > Len(s) THEN 0
  ELSE IF Char(s, i) = ch THEN i
  ELSE Find(s, ch, i + 1)

\* s.split(ch): the fields between occurrences of ch (always at least one field).
RECURSIVE Split(_, _)
Split(s, ch) ==
  LET k == Find(s, ch, 1) IN
  IF k = 0 THEN <<s>>
  ELSE <<SubSeq(s, 1, k - 1)>> \o Split(SubSeq(s, k + 1, Len(s)), ch)

\* s.splitlines(): the lines of s, without a final empty one.
SplitLines(s) ==
  LET parts == Split(s, "\n") IN
  IF parts[Len(parts)] = "" THEN SubSeq(parts, 1, Len(parts) - 1) ELSE parts

\* sep.join(lines)
RECURSIVE Join(_, _)
Join(lines, sep) ==
  IF lines = <<>> THEN ""
  ELSE IF Len(lines) = 1 THEN lines[1]
  ELSE lines[1] \o sep \o Join(Tail(lines), sep)

NonBlank(ln) == Strip(ln) # ""

\* -------------------------------------------------------------- repository
\* The history is linear, c0 .. cMaxCommit; origin/main is c0. A commit c
\* with c % 3 = 1 adds the file f<c>, one with c % 3 = 2 is an empty commit,
\* one with c % 3 = 0 (c > 0) renames f<c-2> to g<c>.
Commits == 0 .. MaxCommit
Sha(c) == "c" \o ToString(c) \o "fe12ab9"
BadSha == "0badc0ffee"
ValidRev(s) == \E c \in Commits : Sha(c) = s
CommitOf(s) == CHOOSE c \in Commits : Sha(c) = s
KnownRefs == {DefaultBaseRef}
BadRef == "no/such-ref"

Blobs == {k \in 1 .. MaxCommit : k % 3 = 1}
InTree(k, c) == c >= k
NameAt(k, c) == IF c >= k + 2 THEN "g" \o ToString(k + 2) ELSE "f" \o ToString(k)

\* stdout of: git rev-parse --show-toplevel
StdoutTopLevel == "/work/repo\n"
\* stdout of: git rev-parse HEAD, with HEAD at commit h
StdoutHead(h) == Sha(h) \o "\n"
\* stdout of: git rev-parse --abbrev-ref HEAD
StdoutBranch == "main\n"
\* stdout of: git merge-base <ref> HEAD
StdoutMergeBase == Sha(0) \o "\n"

\* stdout of: git log --no-decorate --format="%h %s" a..b (newest first).
RECURSIVE StdoutLog(_, _)
StdoutLog(a, b) ==
  IF b <= a THEN ""
  ELSE SubSeq(Sha(b), 1, ShortShaLen) \o " change " \o ToString(b) \o "\n" \o StdoutLog(a, b - 1)

DiffLine(k, a, b) ==
  IF InTree(k, a) /\ InTree(k, b)
  THEN IF NameAt(k, a) = NameAt(k, b) THEN ""
       ELSE "R100\t" \o NameAt(k, a) \o "\t" \o NameAt(k, b) \o "\n"
  ELSE IF InTree(k, b) THEN "A\t" \o NameAt(k, b) \o "\n"
  ELSE IF InTree(k, a) THEN "D\t" \o NameAt(k, a) \o "\n"
  ELSE ""

\* stdout of: git diff --name-status a..b
RECURSIVE DiffFrom(_, _, _)
DiffFrom(k, a, b) ==
  IF k > MaxCommit THEN ""
  ELSE (IF k \in Blobs THEN DiffLine(k, a, b) ELSE "") \o DiffFrom(k + 1, a, b)

StdoutNameStatus(a, b) == DiffFrom(1, a, b)

\* stdout of: git diff --shortstat a..b ("" when the trees are equal)
StdoutShortstat(a, b) ==
  IF StdoutNameStatus(a, b) = "" THEN ""
  ELSE " " \o ToString(Len(SplitLines(StdoutNameStatus(a, b)))) \o " file(s) changed\n"

\* stdout of: git status --porcelain, for a clean and for a dirty working tree
CleanTree == ""
DirtyTree == " M f1\n?? notes.txt\n"
WorkingTrees == {CleanTree, DirtyTree}

\* ------------------------------------------------------- VCS query facade
repo_root(out) == Strip(out)
repo_name(root) == LET parts == Split(root, "/") IN parts[Len(parts)]
head_sha(out) == Strip(out)
short_sha(sha) == Prefix(sha, ShortShaLen)
branch_name(out) == Strip(out)
merge_base(out) == Strip(out)

git_log_oneline(out) ==
  LET kept == SelectSeq(SplitLines(out), NonBlank)
  IN [i \in 1 .. Len(kept) |-> Strip(kept[i])]

\* One line of git diff --name-status output, already rstripped and non-empty.
name_status_entry(line) ==
  LET parts == Split(line, "\t")
      status == Strip(parts[1])
      rest == SelectSeq(Tail(parts), NonBlank)
      paths == [i \in 1 .. Len(rest) |-> Strip(rest[i])]
  IN IF StartsWith(status, "R") /\ Len(paths) >= 2
       THEN status \o " " \o paths[1] \o " -> " \o paths[2]
     ELSE IF StartsWith(status, "C") /\ Len(paths) >= 2
       THEN status \o " " \o paths[1] \o " -> " \o paths[2]
     ELSE IF Len(paths) >= 1 THEN status \o " " \o paths[1]
     ELSE status

NonEmptyAfterRStrip(ln) == RStrip(ln) # ""

git_name_status(out) ==
  LET kept == SelectSeq(SplitLines(out), NonEmptyAfterRStrip)
  IN [i \in 1 .. Len(kept) |-> name_status_entry(RStrip(kept[i]))]

git_shortstat(out) == Strip(out)

\* Variant: the status lines are stripped on both sides.
git_status_porcelain_Strip(out) ==
  LET kept == SelectSeq(SplitLines(out), NonBlank)
  IN [i \in 1 .. Len(kept) |-> Strip(kept[i])]

git_status_porcelain(out) ==
  LET kept == SelectSeq(SplitLines(out), NonBlank)
  IN [i \in 1 .. Len(kept) |-> RStrip(kept[i])]

\* -------------------------------------------------------------------- JSON
\* A JSON scalar carries its type; an object is a function from keys to scalars.
JStr(x) == [t |-> "str", s |-> x, n |-> 0, b |-> FALSE]
JNum(x) == [t |-> "num", s |-> "", n |-> x, b |-> FALSE]
JBool(x) == [t |-> "bool", s |-> "", n |-> 0, b |-> x]
JNull == [t |-> "null", s |-> "", n |-> 0, b |-> FALSE]
EmptyDict == [k \in {} |-> JNull]

\* A file: absent, empty (opened for writing, nothing written yet), garbage
\* (not JSON), a JSON array, or a JSON object.
File(kind, obj) == [kind |-> kind, obj |-> obj]
FileAbsent == File("absent", EmptyDict)
FileEmpty == File("empty", EmptyDict)
FileGarbage == File("garbage", EmptyDict)
FileArray == File("array", EmptyDict)
FileObject(obj) == File("object", obj)

\* json.dumps(data) + "\n" written to a file, and json.loads of a file's text.
json_dumps(data) == FileObject(data)

\* raw.get(key), raw.get(key, default)
Get(raw, key, default) == IF key \in DOMAIN raw THEN raw[key] ELSE default

\* The outcome of a call: a value, or the exception it raised.
Ok(v) == [raised |-> "", val |-> v]
Raised(exc) == [raised |-> exc, val |-> None]

\* _read_json: {} for a missing file; any other failure propagates. The value
\* is [dict |-> is it an object, obj |-> its members].
read_json(file) ==
  IF file.kind = "absent" THEN [raised |-> "", dict |-> TRUE, obj |-> EmptyDict]
  ELSE IF file.kind \in {"empty", "garbage"}
    THEN [raised |-> "JSONDecodeError", dict |-> FALSE, obj |-> EmptyDict]
  ELSE IF file.kind = "array" THEN [raised |-> "", dict |-> FALSE, obj |-> EmptyDict]
  ELSE [raised |-> "", dict |-> TRUE, obj |-> file.obj]

\* ------------------------------------------------------------ configuration
\* bool(x), int(x), str(x) of a JSON scalar (int of a string or of null raises;
\* the strings of the model are not numerals).
PyBool(v) ==
  IF v.t = "bool" THEN v.b
  ELSE IF v.t = "num" THEN v.n # 0
  ELSE IF v.t = "str" THEN v.s # ""
  ELSE FALSE
PyIntRaises(v) == v.t \in {"str", "null"}
PyInt(v) == IF v.t = "num" THEN v.n ELSE IF v.t = "bool" /\ v.b THEN 1 ELSE 0
PyStr(v) ==
  IF v.t = "str" THEN v.s
  ELSE IF v.t = "num" THEN ToString(v.n)
  ELSE IF v.t = "bool" THEN (IF v.b THEN "True" ELSE "False")
  ELSE "None"
\* An optional string member as Python sees it (a string, or None).
PyOptStr(v) == IF v.t = "str" THEN v.s ELSE None

Config(note, project, base, diffstat, maxc, maxf) ==
  [obsidian_note_path |-> note, project_name |-> project, base_ref |-> base,
   include_diffstat |-> diffstat, max_commits |-> maxc, max_files |-> maxf]

\* _load_config: the first existing configuration file, read and converted.
load_config(file) ==
  LET r == IF file.kind # "absent" THEN read_json(file)
           ELSE [raised |-> "", dict |-> TRUE, obj |-> EmptyDict]
      raw == r.obj
  IN IF r.raised # "" THEN Raised(r.raised)
     ELSE IF ~r.dict THEN Raised("AttributeError")
     ELSE IF PyIntRaises(Get(raw, "max_commits", JNum(DefaultMaxCommits)))
             \/ PyIntRaises(Get(raw, "max_files", JNum(DefaultMaxFiles)))
       THEN Raised("ValueError")
     ELSE Ok(Config(
            PyOptStr(Get(raw, "obsidian_note_path", JNull)),
            PyOptStr(Get(raw, "project_name", JNull)),
            IF PyBool(Get(raw, "base_ref", JNull))
              THEN PyStr(Get(raw, "base_ref", JNull)) ELSE DefaultBaseRef,
            PyBool(Get(raw, "include_diffstat", JBool(TRUE))),
            PyInt(Get(raw, "max_commits", JNum(DefaultMaxCommits))),
            PyInt(Get(raw, "max_files", JNum(DefaultMaxFiles)))))

\* --------------------------------------------------------- checkpoint store
\* _load_last_sha: the stripped last_sha, or None.
load_last_sha(file) ==
  LET r == read_json(file)
      sha == Get(r.obj, "last_sha", JNull)
  IN IF r.raised # "" THEN Raised(r.raised)
     ELSE IF ~r.dict THEN Raised("AttributeError")
     ELSE IF sha.t = "str" /\ Strip(sha.s) # "" THEN Ok(Strip(sha.s))
     ELSE Ok(None)

\* _write_last_sha: the content the state file is given.
write_last_sha(sha) == json_dumps([last_sha |-> JStr(sha)])

\* ---------------------------------------------------------- entry formatter
Bullets(l) == [i \in 1 .. Len(l) |-> "- " \o l[i]]

\* Variants: the overflow line is added already when the list is as long as
\* the limit; it is added for a negative limit too.
Section_OverflowAtLimit(title, items, bound) ==
  IF items = <<>> THEN <<>>
  ELSE <<title>>
       \o Bullets(Prefix(items, Max(0, bound)))
       \o (IF bound >= 0 /\ Len(items) >= bound
             THEN <<"- ...and " \o ToString(Len(items) - bound) \o " more">>
             ELSE <<>>)
       \o <<"">>
Section_NegativeOverflow(title, items, bound) ==
  IF items = <<>> THEN <<>>
  ELSE <<title>>
       \o Bullets(Prefix(items, Max(0, bound)))
       \o (IF Len(items) > bound
             THEN <<"- ...and " \o ToString(Len(items) - bound) \o " more">>
             ELSE <<>>)
       \o <<"">>

\* One truncated section (Commits, Files): heading, shown items, overflow line, "".
Section(title, items, bound) ==
  IF items = <<>> THEN <<>>
  ELSE <<title>>
       \o Bullets(Prefix(items, Max(0, bound)))
       \o (IF bound >= 0 /\ Len(items) > bound
             THEN <<"- ...and " \o ToString(Len(items) - bound) \o " more">>
             ELSE <<>>)
       \o <<"">>

\* The em dash of the header and the ellipsis of the overflow line are written
\* "--" and "..." here, and the fence of the Stats block (three backquotes) "~~~".
Fence == "~~~"

format_entry(when, root, project_name, branch, start_sha, end_sha, commits, files, diffstat, working_tree, max_commits, max_files) ==
  LET title_project == Or(project_name, repo_name(root))
      lines ==
        << "## " \o when \o " -- " \o title_project \o " (" \o branch \o ")",
           "",
           "- Repo: " \o repo_name(root),
           "- Range: " \o short_sha(start_sha) \o ".." \o short_sha(end_sha),
           "" >>
        \o Section("### Commits", commits, max_commits)
        \o Section("### Files", files, max_files)
        \o (IF Truthy(diffstat) THEN <<"### Stats", Fence, diffstat, Fence, "">> ELSE <<>>)
        \o (IF TruthyList(working_tree)
              THEN <<"### Working tree (uncommitted)">> \o Bullets(working_tree) \o <<"">>
              ELSE <<>>)
  IN RStrip(Join(lines, "\n")) \o "\n"

\* ------------------------------------------------------------ note appender
\* A note file: [exists, text].
Note(exists, text) == [exists |-> exists, text |-> text]
NoNote == Note(FALSE, "")

\* Variant: the entry replaces what the note held.
append_to_note_Overwrite(found, entry) == entry

\* Variant: a separating newline is added whenever the note exists.
append_to_note_AlwaysSep(found, entry) ==
  IF found.exists THEN found.text \o "\n" \o entry ELSE entry

\* The content _append_to_note writes, from what it found at the path.
append_to_note(found, entry) ==
  IF found.exists
    THEN found.text \o (IF EndsWith(found.text, "\n") THEN "" ELSE "\n") \o entry
    ELSE entry

\* ------------------------------------------------------------------- state
Procs == {1, 2}
\* The processes of the serialized specification.
SeqProcs == {1}
NotePath == "/vault/changes.md"
NotePaths == {NotePath}

VARIABLES
  stateFile,   \* .codex/obsidian-change-summary.state.json
  configFile,  \* .codex/obsidian-change-summary.json
  noteFile,    \* the note files, by path
  main,        \* main[p]: the activation of main() in process p
  runs         \* invocations started so far

vars == <<stateFile, configFile, noteFile, main, runs>>

\* argparse's namespace, with the environment the process was started in.
Args(ok, note, base, since, dry, nostate, nodiff, env) ==
  [argv_ok |-> ok, note |-> note, base |-> base, since |-> since, dry_run |-> dry,
   no_state |-> nostate, no_diffstat |-> nodiff, env_note |-> env]

NoArgs == Args(TRUE, None, None, None, FALSE, FALSE, FALSE, None)
DefaultConfig == Config(None, None, DefaultBaseRef, TRUE, DefaultMaxCommits, DefaultMaxFiles)

\* main()'s locals, its position pc and plan (the writes still to do), and a
\* record of what the run did: outcome, exit status, the failed query, the
\* files as they were when it started, (prev_end) the end commit of the
\* previous run if that run completed and saved its checkpoint, and (overlap)
\* whether another invocation was running at some point of this one. Where
\* the appender is exercised on its own, entries lists the entries handed to
\* it so far and first_note is the note the first of them found.
IdleMain ==
  [pc |-> "idle", plan |-> <<>>, args |-> NoArgs, when |-> "", root |-> "",
   cfg |-> DefaultConfig, note |-> None, end_sha |-> None, start_sha |-> None,
   commits |-> <<>>, files |-> <<>>, diffstat |-> None, working_tree |-> NoneList,
   entry |-> "", content |-> "", stdout |-> "",
   outcome |-> "", exit |-> -1, failed |-> "", error |-> "", path |-> "",
   state_read |-> FALSE, merge_base_called |-> FALSE, status_called |-> FALSE,
   formatted |-> FALSE, note_before |-> NoNote, state_before |-> FileAbsent,
   prev_end |-> None, overlap |-> FALSE, entries |-> <<>>, first_note |-> NoNote]

Running(l) == l.pc \notin {"idle", "done"}

\* return code from main (raise SystemExit(code)).
Return(l, code, what) == [l EXCEPT !.pc = "done", !.plan = <<>>, !.exit = code, !.outcome = what]

\* Variant: the checkpoint is persisted on the way out of a failed run.
Raise_Saving(l, query, exc) ==
  [l EXCEPT !.pc = "ckpt_open", !.plan = <<"ckpt_write">>, !.exit = ExitUncaught,
            !.outcome = "error", !.failed = query, !.error = exc]

\* An exception nothing catches: the traceback is printed and the status is 1.
Raise(l, query, exc) ==
  [l EXCEPT !.pc = "done", !.plan = <<>>, !.exit = ExitUncaught, !.outcome = "error",
            !.failed = query, !.error = exc]

\* Continue with the first step of the plan, or return 0 when none is left.
Continue(l, plan) ==
  IF plan = <<>>
    THEN Return(l, ExitOk, IF l.path = "append" THEN "appended"
                           ELSE IF l.path = "print" THEN "printed" ELSE "no_changes")
    ELSE [l EXCEPT !.pc = Head(plan), !.plan = Tail(plan)]

\* -------------------------------------------------------------- main, steps
\* The git queries by name; a run's environment may make one of them fail.
SetupQueries == {"root"}
ResolveQueries == {"head", "merge_base"}
RangeQueries == {"log", "name_status", "shortstat", "status", "branch"}

\* Variant: a dry run without destination is refused too.
MissingNote_IgnoresDryRun(note, dry_run) == ~Truthy(note)

\* Line 241: no destination and not a dry run.
MissingNote(note, dry_run) == ~Truthy(note) /\ ~dry_run

\* Lines 225-247: parse the arguments, resolve the repository root, load the
\* configuration, determine the note path.
SetupStep(l, cfile, gitfail) ==
  IF ~l.args.argv_ok THEN Return(l, ExitUsage, "usage")
  ELSE IF gitfail = "root" THEN Raise(l, "root", "RuntimeError")
  ELSE
    LET c == load_config(cfile) IN
    IF c.raised # "" THEN Raise(l, "", c.raised)
    ELSE
      LET note == Or(Or(l.args.note, c.val.obsidian_note_path), l.args.env_note)
          l2 == [l EXCEPT !.root = repo_root(StdoutTopLevel), !.cfg = c.val, !.note = note]
      IN IF MissingNote(note, l.args.dry_run)
           THEN Return(l2, ExitMissingNote, "missing_note")
           ELSE [l2 EXCEPT !.pc = "resolve"]

\* Variant: the stored checkpoint is consulted before the override.
StartSource_StateFirst(since, no_state) ==
  IF ~no_state THEN "state"
  ELSE IF Truthy(since) THEN "since"
  ELSE "none"

\* Lines 251-255: where the start commit is taken from first.
StartSource(since, no_state) ==
  IF Truthy(since) THEN "since"
  ELSE IF ~no_state THEN "state"
  ELSE "none"

\* Lines 249-259: the end commit (HEAD, at commit h) and the start commit.
ResolveStep(l, sfile, h, gitfail) ==
  IF gitfail = "head" THEN Raise(l, "head", "RuntimeError")
  ELSE
    LET src == StartSource(l.args.since, l.args.no_state)
        ld == IF src = "state" THEN load_last_sha(sfile) ELSE Ok(None)
        first == IF src = "since" THEN l.args.since ELSE ld.val
        base_ref == Or(l.args.base, l.cfg.base_ref)
        l2 == [l EXCEPT !.end_sha = head_sha(StdoutHead(h)), !.state_read = (src = "state")]
    IN IF ld.raised # "" THEN Raise(l2, "", ld.raised)
       ELSE IF Truthy(first) THEN [l2 EXCEPT !.pc = "queries", !.start_sha = first]
       ELSE IF gitfail = "merge_base" \/ base_ref \notin KnownRefs
         THEN Raise([l2 EXCEPT !.merge_base_called = TRUE], "merge_base", "RuntimeError")
       ELSE [l2 EXCEPT !.pc = "queries", !.merge_base_called = TRUE,
                       !.start_sha = merge_base(StdoutMergeBase)]

\* Variant: a run that found no changes leaves the checkpoint alone.
NoChangesPlan_NoSave(no_state, dry_run) == <<>>

\* Lines 277-278: the writes of a run that found no changes.
NoChangesPlan(no_state, dry_run) ==
  IF ~no_state /\ ~dry_run THEN <<"ckpt_open", "ckpt_write">> ELSE <<>>

\* Variants: the checkpoint is persisted before the append; whatever
\* --no-state says; never.
AppendPlan_SaveFirst(no_state) ==
  (IF ~no_state THEN <<"ckpt_open", "ckpt_write">> ELSE <<>>)
  \o <<"append_read", "append_open", "append_write">>
AppendPlan_AlwaysSave(no_state) ==
  <<"append_read", "append_open", "append_write", "ckpt_open", "ckpt_write">>
AppendPlan_NoSave(no_state) == <<"append_read", "append_open", "append_write">>

\* Lines 299-301: the writes of a run that appends its entry.
AppendPlan(no_state) ==
  <<"append_read", "append_open", "append_write">>
  \o (IF ~no_state THEN <<"ckpt_open", "ckpt_write">> ELSE <<>>)

\* Variant: only a missing destination makes the run print.
PrintsEntry_IgnoresDryRun(dry_run, note) == ~Truthy(note)

\* Line 296: print the entry, or append it.
PrintsEntry(dry_run, note) == dry_run \/ ~Truthy(note)

\* Variant: the working-tree status is compared with the empty list.
NoChanges_EmptyListOnly(commits, files, working_tree) ==
  commits = <<>> /\ files = <<>> /\ working_tree = <<>>

\* Line 275: nothing to report.
NoChanges(commits, files, working_tree) ==
  commits = <<>> /\ files = <<>> /\ ~TruthyList(working_tree)

\* Lines 261-297: the range queries, the "no changes" decision, the entry.
QueriesStep(l, wtout, gitfail) ==
  IF gitfail = "log" \/ ~ValidRev(l.start_sha) THEN Raise(l, "log", "RuntimeError")
  ELSE IF gitfail = "name_status" THEN Raise(l, "name_status", "RuntimeError")
  ELSE
    LET a == CommitOf(l.start_sha)
        b == CommitOf(l.end_sha)
        commits == git_log_oneline(StdoutLog(a, b))
        files == git_name_status(StdoutNameStatus(a, b))
        include_diffstat == l.cfg.include_diffstat /\ ~l.args.no_diffstat
        stat == IF include_diffstat THEN git_shortstat(StdoutShortstat(a, b)) ELSE None
        diffstat == IF stat = "" THEN None ELSE stat
        ask == commits = <<>> /\ files = <<>>
        wt == IF ask THEN git_status_porcelain(wtout) ELSE <<>>
        working_tree == IF wt # <<>> THEN wt ELSE NoneList
        l2 == [l EXCEPT !.commits = commits, !.files = files, !.diffstat = diffstat]
        l3 == [l2 EXCEPT !.working_tree = working_tree, !.status_called = ask]
        entry == format_entry(l.when, l.root, l.cfg.project_name, branch_name(StdoutBranch),
                              l.start_sha, l.end_sha, commits, files, diffstat,
                              working_tree, l.cfg.max_commits, l.cfg.max_files)
    IN IF include_diffstat /\ gitfail = "shortstat" THEN Raise(l2, "shortstat", "RuntimeError")
       ELSE IF ask /\ gitfail = "status"
         THEN Raise([l2 EXCEPT !.status_called = TRUE], "status", "RuntimeError")
       ELSE IF NoChanges(commits, files, working_tree)
         THEN Continue([l3 EXCEPT !.path = "no_changes",
                                  !.stdout = "No changes detected\n"],
                       NoChangesPlan(l.args.no_state, l.args.dry_run))
       ELSE IF gitfail = "branch" THEN Raise(l3, "branch", "RuntimeError")
       ELSE IF PrintsEntry(l.args.dry_run, l.note)
         THEN Continue([l3 EXCEPT !.path = "print", !.formatted = TRUE, !.entry = entry,
                                  !.stdout = entry], <<>>)
       ELSE Continue([l3 EXCEPT !.path = "append", !.formatted = TRUE, !.entry = entry],
                     AppendPlan(l.args.no_state))

\* ------------------------------------------------------------ main, actions
\* The command lines and environments an invocation is started with.
SinceArgs == {None, "", BadSha, Sha(0), Sha(MaxCommit)}
EnvNotes == {None, NotePath}

Argvs ==
  {Args(TRUE, NotePath, None, s, d, ns, FALSE, None) :
     s \in SinceArgs, d \in BOOLEAN, ns \in BOOLEAN}
  \cup {Args(TRUE, None, None, None, d, FALSE, FALSE, e) : d \in BOOLEAN, e \in EnvNotes}
  \cup {Args(TRUE, "", None, None, FALSE, FALSE, FALSE, None),
        Args(TRUE, NotePath, BadRef, None, FALSE, TRUE, FALSE, None),
        Args(TRUE, NotePath, None, None, FALSE, FALSE, TRUE, None),
        Args(FALSE, NotePath, None, None, FALSE, FALSE, FALSE, None)}

\* The run completed and persisted its checkpoint.
Saved(l) == l.outcome \in {"appended", "no_changes"} /\ ~l.args.dry_run /\ ~l.args.no_state

\* The process is started: python append_change_summary.py argv.
Invoke(p, argv) ==
  /\ runs < MaxRuns
  /\ \A q \in Procs : ~Running(main[q])
  /\ runs' = runs + 1
  /\ main' = [main EXCEPT ![p] =
       [IdleMain EXCEPT !.pc = "start", !.args = argv,
                        !.when = "2026-01-01 10:0" \o ToString(runs + 1),
                        !.note_before = noteFile[NotePath], !.state_before = stateFile,
                        !.prev_end = IF Saved(main[p]) THEN main[p].end_sha ELSE None]]
  /\ UNCHANGED <<stateFile, configFile, noteFile>>

Setup(p) ==
  /\ main[p].pc = "start"
  /\ \E gitfail \in SetupQueries \cup {"none"} :
       main' = [main EXCEPT ![p] = SetupStep(main[p], configFile, gitfail)]
  /\ UNCHANGED <<stateFile, configFile, noteFile, runs>>

Resolve(p) ==
  /\ main[p].pc = "resolve"
  /\ \E h \in Commits, gitfail \in ResolveQueries \cup {"none"} :
       main' = [main EXCEPT ![p] = ResolveStep(main[p], stateFile, h, gitfail)]
  /\ UNCHANGED <<stateFile, configFile, noteFile, runs>>

Queries(p) ==
  /\ main[p].pc = "queries"
  /\ \E wtout \in WorkingTrees, gitfail \in RangeQueries \cup {"none"} :
       main' = [main EXCEPT ![p] = QueriesStep(main[p], wtout, gitfail)]
  /\ UNCHANGED <<stateFile, configFile, noteFile, runs>>

\* _append_to_note, lines 215-218: read what is at the path.
AppendRead(p) ==
  /\ main[p].pc = "append_read"
  /\ main' = [main EXCEPT ![p] =
       Continue([main[p] EXCEPT !.content = append_to_note(noteFile[main[p].note],
                                                           main[p].entry)],
                main[p].plan)]
  /\ UNCHANGED <<stateFile, configFile, noteFile, runs>>

\* write_text opens the file for writing, which creates or truncates it ...
AppendOpen(p) ==
  /\ main[p].pc = "append_open"
  /\ noteFile' = [noteFile EXCEPT ![main[p].note] = Note(TRUE, "")]
  /\ main' = [main EXCEPT ![p] = Continue(main[p], main[p].plan)]
  /\ UNCHANGED <<stateFile, configFile, runs>>

\* Variant: the entry alone is written, not what was read followed by it.
AppendWrite_EntryOnly(p) ==
  /\ main[p].pc = "append_write"
  /\ noteFile' = [noteFile EXCEPT ![main[p].note] = Note(TRUE, main[p].entry)]
  /\ main' = [main EXCEPT ![p] = Continue(main[p], main[p].plan)]
  /\ UNCHANGED <<stateFile, configFile, runs>>

\* ... and then writes the content (lines 219, 221).
AppendWrite(p) ==
  /\ main[p].pc = "append_write"
  /\ noteFile' = [noteFile EXCEPT ![main[p].note] = Note(TRUE, main[p].content)]
  /\ main' = [main EXCEPT ![p] = Continue(main[p], main[p].plan)]
  /\ UNCHANGED <<stateFile, configFile, runs>>

\* _write_last_sha -> _write_json, line 105: write_text opens the state file ...
CkptOpen(p) ==
  /\ main[p].pc = "ckpt_open"
  /\ stateFile' = FileEmpty
  /\ main' = [main EXCEPT ![p] = Continue(main[p], main[p].plan)]
  /\ UNCHANGED <<configFile, noteFile, runs>>

\* Variant: the start of the range is persisted in place of its end.
CkptWrite_SavesStart(p) ==
  /\ main[p].pc = "ckpt_write"
  /\ stateFile' = write_last_sha(main[p].start_sha)
  /\ main' = [main EXCEPT ![p] = Continue(main[p], main[p].plan)]
  /\ UNCHANGED <<configFile, noteFile, runs>>

\* ... and then writes the record.
CkptWrite(p) ==
  /\ main[p].pc = "ckpt_write"
  /\ stateFile' = write_last_sha(main[p].end_sha)
  /\ main' = [main EXCEPT ![p] = Continue(main[p], main[p].plan)]
  /\ UNCHANGED <<configFile, noteFile, runs>>

\* The process is killed while it writes and returns no status from main
\* (killed any earlier, it leaves the files as if it had never started).
Crash(p) ==
  /\ main[p].pc \in {"append_read", "append_open", "append_write", "ckpt_open", "ckpt_write"}
  /\ main' = [main EXCEPT ![p] = Return(main[p], -1, "killed")]
  /\ UNCHANGED <<stateFile, configFile, noteFile, runs>>

\* ---------------------------------------------------------- specification
\* The files an invocation may find: a fresh repository; one with a stored
\* checkpoint (padded with whitespace) and a note that lacks its final newline;
\* one whose configuration names the note and lowers the limits; one whose
\* configuration file is not JSON.
PaddedSha == " " \o Sha(1) \o "\n"
ConfigObject ==
  FileObject([obsidian_note_path |-> JStr(NotePath), project_name |-> JStr("Budget"),
              include_diffstat |-> JBool(FALSE), max_commits |-> JNum(1),
              max_files |-> JNum(1)])
Scenarios ==
  { [state |-> FileAbsent, config |-> FileAbsent, note |-> NoNote],
    [state |-> FileObject([last_sha |-> JStr(PaddedSha)]), config |-> FileAbsent,
     note |-> Note(TRUE, "# Log")],
    [state |-> FileAbsent, config |-> ConfigObject, note |-> Note(TRUE, "# Log")],
    [state |-> FileAbsent, config |-> FileGarbage, note |-> NoNote] }

Init ==
  /\ \E sc \in Scenarios :
       /\ stateFile = sc.state
       /\ configFile = sc.config
       /\ noteFile = [path \in NotePaths |-> sc.note]
  /\ main = [p \in Procs |-> IdleMain]
  /\ runs = 0

Next ==
  \E p \in SeqProcs :
    \/ \E argv \in Argvs : Invoke(p, argv)
    \/ Setup(p)
    \/ Resolve(p)
    \/ Queries(p)
    \/ AppendRead(p)
    \/ AppendOpen(p)
    \/ AppendWrite(p)
    \/ CkptOpen(p)
    \/ CkptWrite(p)

Spec == Init /\ [][Next]_vars

\* The same program in an environment that may kill it, started in a
\* repository with a stored checkpoint and an existing note.
InitCrash ==
  /\ stateFile = FileObject([last_sha |-> JStr(PaddedSha)])
  /\ configFile = FileAbsent
  /\ noteFile = [path \in NotePaths |-> Note(TRUE, "# Log")]
  /\ main = [p \in Procs |-> IdleMain]
  /\ runs = 0

NextCrash == Next \/ \E p \in SeqProcs : Crash(p)

SpecCrash == InitCrash /\ [][NextCrash]_vars

\* The same program started where the state file is not a usable record: not
\* JSON, empty, a JSON array, an object without last_sha, one whose last_sha
\* is blank, one whose last_sha is a number, one whose last_sha names no commit.
BlankSha == " \n"
StateFiles ==
  { FileGarbage, FileEmpty, FileArray, FileObject(EmptyDict),
    FileObject([last_sha |-> JStr(BlankSha)]), FileObject([last_sha |-> JNum(7)]),
    FileObject([last_sha |-> JStr(BadSha)]) }

InitStore ==
  /\ stateFile \in StateFiles
  /\ configFile = FileAbsent
  /\ noteFile = [path \in NotePaths |-> NoNote]
  /\ main = [p \in Procs |-> IdleMain]
  /\ runs = 0

SpecStore == InitStore /\ [][Next]_vars


\* Two invocations that nothing serializes: the caller starts each process
\* once, whenever it likes, in a repository with a stored checkpoint and a note.
ConcArgvs == {Args(TRUE, NotePath, None, None, FALSE, FALSE, FALSE, None)}

InvokeConcurrently(p, argv) ==
  /\ main[p].pc = "idle"
  /\ runs' = runs + 1
  /\ main' = [q \in Procs |->
       IF q = p
         THEN [IdleMain EXCEPT !.pc = "start", !.args = argv,
                               !.when = "2026-01-01 10:0" \o ToString(runs + 1),
                               !.note_before = noteFile[NotePath],
                               !.state_before = stateFile,
                               !.overlap = \E o \in Procs \ {p} : Running(main[o])]
         ELSE IF Running(main[q]) THEN [main[q] EXCEPT !.overlap = TRUE]
         ELSE main[q]]
  /\ UNCHANGED <<stateFile, configFile, noteFile>>

InitConc ==
  /\ stateFile = FileObject([last_sha |-> JStr(Sha(0))])
  /\ configFile = FileAbsent
  /\ noteFile = [path \in NotePaths |-> Note(TRUE, "# Log\n")]
  /\ main = [p \in Procs |-> IdleMain]
  /\ runs = 0

NextConc ==
  \E p \in Procs :
    \/ \E argv \in ConcArgvs : InvokeConcurrently(p, argv)
    \/ Setup(p)
    \/ Resolve(p)
    \/ Queries(p)
    \/ AppendRead(p)
    \/ AppendOpen(p)
    \/ AppendWrite(p)
    \/ CkptOpen(p)
    \/ CkptWrite(p)

SpecConc == InitConc /\ [][NextConc]_vars

\* The formatter on its own: _format_entry applied to inputs drawn from
\* bounded sets (lists of 0 .. MaxItems items, limits from -1 to MaxItems + 1).
FmtCommits(n) == git_log_oneline(StdoutLog(0, n))
FmtFiles(n) == [i \in 1 .. n |-> "M src/file" \o ToString(i)]
FmtLimits == -1 .. MaxItems + 1
FmtDiffstats == {None, "2 files changed, 3 insertions(+)"}
FmtWorkingTrees == {NoneList, git_status_porcelain(DirtyTree)}

InitFmt ==
  /\ stateFile = FileAbsent
  /\ configFile = FileAbsent
  /\ noteFile = [path \in NotePaths |-> NoNote]
  /\ runs = 0
  /\ \E nc \in 0 .. MaxItems, nf \in 0 .. MaxItems, maxc \in FmtLimits, maxf \in FmtLimits,
        ds \in FmtDiffstats, wt \in FmtWorkingTrees :
       main = [p \in Procs |->
         IF p \in SeqProcs
           THEN [IdleMain EXCEPT
                   !.pc = "format", !.when = "2026-01-01 10:01", !.root = "/work/repo",
                   !.cfg = Config(None, None, DefaultBaseRef, TRUE, maxc, maxf),
                   !.start_sha = Sha(0), !.end_sha = Sha(nc),
                   !.commits = FmtCommits(nc), !.files = FmtFiles(nf),
                   !.diffstat = ds, !.working_tree = wt]
           ELSE IdleMain]

\* Lines 281-294: the call of _format_entry.
FormatEntry(p) ==
  /\ main[p].pc = "format"
  /\ main' = [main EXCEPT ![p] =
       [main[p] EXCEPT
          !.pc = "done", !.formatted = TRUE,
          !.entry = format_entry(main[p].when, main[p].root, main[p].cfg.project_name,
                                 branch_name(StdoutBranch), main[p].start_sha,
                                 main[p].end_sha, main[p].commits, main[p].files,
                                 main[p].diffstat, main[p].working_tree,
                                 main[p].cfg.max_commits, main[p].cfg.max_files)]]
  /\ UNCHANGED <<stateFile, configFile, noteFile, runs>>

NextFmt == \E p \in SeqProcs : FormatEntry(p)

SpecFmt == InitFmt /\ [][NextFmt]_vars

\* The appender on its own: up to MaxEntries formatted entries are appended,
\* one after the other, to a note that is absent or exists without content.
NoteEntries(stamp) ==
  {format_entry(stamp, "/work/repo", None, branch_name(StdoutBranch), Sha(0), Sha(n),
                FmtCommits(n), FmtFiles(n), ds, NoneList,
                DefaultMaxCommits, DefaultMaxFiles) : n \in 1 .. 2, ds \in FmtDiffstats}
  \cup {format_entry(stamp, "/work/repo", None, branch_name(StdoutBranch), Sha(0), Sha(0),
                     <<>>, <<>>, None, git_status_porcelain(DirtyTree),
                     DefaultMaxCommits, DefaultMaxFiles)}

\* Lines 281-299 of a run that appends: the entry is formatted and handed to
\* _append_to_note.
AppendEntry(p) ==
  /\ main[p].pc \in {"idle", "done"}
  /\ Len(main[p].entries) < MaxEntries
  /\ \E e \in NoteEntries("2026-01-01 10:0" \o ToString(Len(main[p].entries) + 1)) :
       main' = [main EXCEPT ![p] =
         [IdleMain EXCEPT
            !.pc = "append_read", !.plan = <<"append_open", "append_write">>,
            !.args = Args(TRUE, NotePath, None, None, FALSE, TRUE, FALSE, None),
            !.note = NotePath, !.path = "append", !.formatted = TRUE, !.entry = e,
            !.note_before = noteFile[NotePath],
            !.entries = Append(main[p].entries, e),
            !.first_note = IF main[p].entries = <<>> THEN noteFile[NotePath]
                           ELSE main[p].first_note]]
  /\ UNCHANGED <<stateFile, configFile, noteFile, runs>>

InitNote ==
  /\ stateFile = FileAbsent
  /\ configFile = FileAbsent
  /\ noteFile \in [NotePaths -> {NoNote, Note(TRUE, "")}]
  /\ main = [p \in Procs |-> IdleMain]
  /\ runs = 0

NextNote ==
  \E p \in SeqProcs :
    \/ AppendEntry(p)
    \/ AppendRead(p)
    \/ AppendOpen(p)
    \/ AppendWrite(p)

SpecNote == InitNote /\ [][NextNote]_vars

\* ------------------------------------------------------------------ claims
Done(l) == l.pc = "done"
Started(l) == l.pc # "idle"
\* The run ended by returning from main or on an exception (it was not killed).
Ended(l) == Done(l) /\ l.outcome # "killed"
\* The run took its decision: "no changes", print or append.
Decided(l) == l.path # ""
\* The file holds a usable checkpoint: a string last_sha that is not blank.
HasCheckpoint(file) ==
  /\ file.kind = "object"
  /\ "last_sha" \in DOMAIN file.obj
  /\ file.obj["last_sha"].t = "str"
  /\ Strip(file.obj["last_sha"].s) # ""
StoredSha(file) == Strip(file.obj["last_sha"].s)
\* The configuration file names a destination.
ConfiguredNote(file) ==
  IF file.kind = "object" /\ "obsidian_note_path" \in DOMAIN file.obj
    THEN PyOptStr(file.obj["obsidian_note_path"]) ELSE None
\* No flag, no configured path and no environment value name the destination.
NoDestination(l) ==
  ~Truthy(l.args.note) /\ ~Truthy(ConfiguredNote(configFile)) /\ ~Truthy(l.args.env_note)
FilesUntouched(l) == noteFile[NotePath] = l.note_before /\ stateFile = l.state_before

\* C1: the start commit is the --since override when one is given (a non-empty
\* value), else the stored checkpoint when state is enabled and one exists,
\* else the merge-base; the checkpoint is read only without an override and
\* the merge-base is computed only when neither of the first two gave a value.
C1_StartPriority ==
  \A p \in Procs :
    LET l == main[p]
        stored == ~l.args.no_state /\ HasCheckpoint(l.state_before)
    IN /\ l.start_sha # None =>
            IF Truthy(l.args.since) THEN l.start_sha = l.args.since
            ELSE IF stored THEN l.start_sha = StoredSha(l.state_before)
            ELSE l.start_sha = Sha(0)
       /\ l.state_read => ~Truthy(l.args.since) /\ ~l.args.no_state
       /\ l.merge_base_called => ~Truthy(l.args.since) /\ ~stored
       /\ (l.start_sha # None /\ ~Truthy(l.args.since) /\ ~stored) => l.merge_base_called

\* C1 witness: an override and a stored checkpoint are both present, they
\* differ, and the run started from the override.
C1_Witness ==
  \E p \in Procs :
    /\ Truthy(main[p].args.since) /\ ~main[p].args.no_state
    /\ HasCheckpoint(main[p].state_before)
    /\ StoredSha(main[p].state_before) # main[p].args.since
    /\ main[p].start_sha = main[p].args.since
    /\ main[p].outcome = "appended"

\* C2: after a run that was not a dry run, had state enabled and appended an
\* entry or reported "no changes", loading the checkpoint returns the end
\* commit the run resolved.
C2_CheckpointIsEnd ==
  \A p \in Procs :
    LET l == main[p] IN
    (Done(l) /\ l.outcome \in {"appended", "no_changes"} /\ ~l.args.dry_run /\ ~l.args.no_state)
      => load_last_sha(stateFile) = Ok(l.end_sha)

\* C2 witness: such a run appended an entry and moved the checkpoint.
C2_Witness ==
  \E p \in Procs :
    /\ Done(main[p]) /\ main[p].outcome = "appended"
    /\ ~main[p].args.no_state
    /\ stateFile # main[p].state_before
    /\ load_last_sha(stateFile).val = main[p].end_sha

\* C3: when an invocation has ended, the note as it was before is a prefix of
\* the note as it is now, and what was added is nothing, or the entry after
\* at most one newline.
C3_AppendOnly ==
  \A p \in Procs :
    LET l == main[p]
        old == IF l.note_before.exists THEN l.note_before.text ELSE ""
        new == noteFile[NotePath]
    IN Ended(l) =>
         \/ new = l.note_before
         \/ /\ l.outcome = "appended"
            /\ new.exists
            /\ StartsWith(new.text, old)
            /\ \E sep \in {"", "\n"} : new.text = old \o sep \o l.entry

\* C3 witness: an entry was appended, after a separating newline, to a note
\* that had content.
C3_Witness ==
  \E p \in Procs :
    /\ Ended(main[p]) /\ main[p].outcome = "appended"
    /\ main[p].note_before.exists /\ main[p].note_before.text # ""
    /\ noteFile[NotePath].text = main[p].note_before.text \o "\n" \o main[p].entry

\* C4: in a run that appends, at every point, also when the run is killed,
\* the checkpoint has been touched only if the note already holds the entry.
C4_AppendBeforeCheckpoint ==
  \A p \in Procs :
    LET l == main[p] IN
    (l.path = "append" /\ stateFile # l.state_before) =>
      /\ l.content = append_to_note(l.note_before, l.entry)
      /\ noteFile[NotePath] = Note(TRUE, l.content)

\* C4 witness: the run was killed while it wrote the checkpoint; the entry is
\* in the note.
C4_Witness ==
  \E p \in Procs :
    /\ main[p].outcome = "killed" /\ main[p].path = "append"
    /\ stateFile # main[p].state_before
    /\ noteFile[NotePath].text = main[p].content

\* C5: a run one of whose git queries failed has ended with a non-zero status
\* and has written neither the checkpoint nor the note.
C5_FailedQueryWritesNothing ==
  \A p \in Procs :
    LET l == main[p] IN
    l.failed # "" => Done(l) /\ l.exit # ExitOk /\ l.exit > 0 /\ FilesUntouched(l)

\* C5 witness: the last query (the branch name) failed in a run that was
\* about to append and to persist the checkpoint.
C5_Witness ==
  \E p \in Procs :
    /\ main[p].failed = "branch"
    /\ Truthy(main[p].note) /\ ~main[p].args.dry_run /\ ~main[p].args.no_state
    /\ main[p].commits # <<>>

\* C6 as stated: without a destination and not in a dry run the status is 2
\* and nothing is written; the status is 2 in no other situation; a completed
\* run exits with 0.
C6_Original ==
  \A p \in Procs :
    LET l == main[p] IN
    Done(l) =>
      /\ (NoDestination(l) /\ ~l.args.dry_run) => (l.exit = ExitMissingNote /\ FilesUntouched(l))
      /\ l.exit = ExitMissingNote => (NoDestination(l) /\ ~l.args.dry_run)
      /\ l.outcome \in {"no_changes", "appended", "printed"} => l.exit = ExitOk

\* C6 amended: a run whose command line parsed, without a destination and not
\* a dry run, writes nothing and exits with 2, unless the root query or the
\* configuration load failed first (status 1); the status is 2 otherwise only
\* when argparse rejected the command line; a completed run exits with 0.
C6_MissingDestination ==
  \A p \in Procs :
    LET l == main[p] IN
    Done(l) =>
      /\ (l.args.argv_ok /\ NoDestination(l) /\ ~l.args.dry_run) =>
           /\ FilesUntouched(l)
           /\ \/ l.outcome = "missing_note" /\ l.exit = ExitMissingNote
              \/ l.outcome = "error" /\ l.exit = ExitUncaught /\ l.end_sha = None
      /\ l.exit = ExitMissingNote =>
           /\ FilesUntouched(l)
           /\ \/ l.outcome = "missing_note" /\ NoDestination(l) /\ ~l.args.dry_run
              \/ l.outcome = "usage" /\ ~l.args.argv_ok
      /\ l.outcome \in {"no_changes", "appended", "printed"} => l.exit = ExitOk

\* C6 witness: a run without destination ended with status 2.
C6_Witness ==
  \E p \in Procs :
    /\ Done(main[p]) /\ main[p].outcome = "missing_note" /\ main[p].exit = ExitMissingNote
    /\ NoDestination(main[p]) /\ ~main[p].args.dry_run

\* C7: a dry run never touches the checkpoint or the note, whatever it finds;
\* its entry, if any, goes to standard output.
C7_DryRunWritesNothing ==
  \A p \in Procs :
    LET l == main[p] IN
    (Started(l) /\ l.args.dry_run) =>
      /\ FilesUntouched(l)
      /\ l.plan = <<>>
      /\ l.formatted => (l.path = "print" /\ l.stdout = l.entry)

\* C7 witness: a dry run with a destination and state enabled printed an entry.
C7_Witness ==
  \E p \in Procs :
    /\ main[p].args.dry_run /\ ~main[p].args.no_state /\ Truthy(main[p].note)
    /\ Done(main[p]) /\ main[p].outcome = "printed" /\ main[p].entry # ""

\* C8: with --no-state the checkpoint is not read and not written, on any
\* path, and the start commit is the override or else the merge-base.
C8_NoStateIgnoresCheckpoint ==
  \A p \in Procs :
    LET l == main[p] IN
    (Started(l) /\ l.args.no_state) =>
      /\ ~l.state_read
      /\ stateFile = l.state_before
      /\ l.start_sha # None =>
           l.start_sha = (IF Truthy(l.args.since) THEN l.args.since ELSE Sha(0))

\* C8 witness: a --no-state run appended an entry although a checkpoint,
\* other than the start it used, was stored.
C8_Witness ==
  \E p \in Procs :
    /\ main[p].args.no_state /\ main[p].outcome = "appended"
    /\ HasCheckpoint(stateFile) /\ StoredSha(stateFile) # main[p].start_sha

\* C9: a run with state enabled and no override that follows a run which
\* saved its checkpoint, resolves the same HEAD and finds the working tree
\* clean, decides "no changes": it formats and appends nothing and exits 0.
C9_NoChangesIdempotent ==
  \A p \in Procs :
    LET l == main[p] IN
    (/\ l.prev_end # None /\ l.end_sha = l.prev_end
     /\ ~l.args.no_state /\ ~Truthy(l.args.since)
     /\ Decided(l) /\ ~TruthyList(l.working_tree)) =>
      /\ l.path = "no_changes" /\ ~l.formatted
      /\ noteFile[NotePath] = l.note_before
      /\ Ended(l) => (l.outcome = "no_changes" /\ l.exit = ExitOk)

\* C9 witness: the second of two such runs ended with "no changes", after a
\* first run that had appended an entry.
C9_Witness ==
  \E p \in Procs :
    /\ main[p].prev_end # None /\ main[p].end_sha = main[p].prev_end
    /\ ~main[p].args.no_state /\ ~Truthy(main[p].args.since)
    /\ Ended(main[p]) /\ main[p].outcome = "no_changes"
    /\ main[p].status_called
    /\ main[p].note_before.exists /\ Len(main[p].note_before.text) > Len("# Log\n")

\* C10: when commits, changed files and working-tree status are all empty the
\* run short-circuits: nothing is formatted, the note is untouched, "no
\* changes" is reported with status 0, and the checkpoint becomes the end
\* commit unless state is disabled or the run is a dry run.
C10_NoChangesShortCircuit ==
  \A p \in Procs :
    LET l == main[p] IN
    (Decided(l) /\ l.commits = <<>> /\ l.files = <<>> /\ ~TruthyList(l.working_tree)) =>
      /\ l.path = "no_changes" /\ ~l.formatted /\ l.entry = ""
      /\ l.stdout = "No changes detected\n"
      /\ noteFile[NotePath] = l.note_before
      /\ Done(l) =>
           /\ l.outcome = "no_changes" /\ l.exit = ExitOk
           /\ IF ~l.args.no_state /\ ~l.args.dry_run
                THEN load_last_sha(stateFile) = Ok(l.end_sha)
                ELSE stateFile = l.state_before

\* C10 witness: such a run ended where no note existed, left none, and moved
\* the checkpoint to the end commit.
C10_Witness ==
  \E p \in Procs :
    /\ Done(main[p]) /\ main[p].outcome = "no_changes"
    /\ ~main[p].note_before.exists /\ ~noteFile[NotePath].exists
    /\ stateFile # main[p].state_before
    /\ stateFile = write_last_sha(main[p].end_sha)

\* C11: loading the checkpoint never fails the caller: when the state file
\* holds no usable checkpoint (it is absent, not valid JSON, not an object, or
\* its last_sha is blank or missing), a run that consults it goes on to the
\* merge-base.
C11_Original ==
  \A p \in Procs :
    LET l == main[p] IN
    (l.state_read /\ ~HasCheckpoint(l.state_before)) =>
      /\ l.error \notin {"JSONDecodeError", "AttributeError"}
      /\ l.merge_base_called

\* C12: saving the checkpoint is atomic for readers: an invocation that loads
\* the checkpoint while another one saves it finds the complete previous or
\* the complete new record, never an empty or truncated file (which its JSON
\* parser would reject).
C12_Original ==
  \A p \in Procs :
    main[p].state_read => main[p].error # "JSONDecodeError"

\* The lines of an entry, and the lines of its section under a heading: those
\* after the heading up to the next blank line (none if the heading is absent).
EntryLines(entry) == SplitLines(entry)
HasHeading(entry, title) ==
  LET ls == EntryLines(entry) IN \E i \in 1 .. Len(ls) : ls[i] = title
SectionLines(entry, title) ==
  LET ls == EntryLines(entry)
      at == CHOOSE i \in 1 .. Len(ls) : ls[i] = title
      stops == {j \in at + 1 .. Len(ls) : ls[j] = ""}
      last == IF stops = {} THEN Len(ls)
              ELSE (CHOOSE j \in stops : \A k \in stops : j <= k) - 1
  IN IF \E i \in 1 .. Len(ls) : ls[i] = title THEN SubSeq(ls, at + 1, last) ELSE <<>>
OverflowLine(n) == "- ...and " \o ToString(n) \o " more"
\* What a section must list for a list and a non-negative limit: the first
\* min(count, limit) items in order, then the overflow line iff count > limit.
Truncated(items, limit) ==
  [i \in 1 .. Min(Len(items), limit) |-> "- " \o items[i]]
  \o (IF Len(items) > limit THEN <<OverflowLine(Len(items) - limit)>> ELSE <<>>)

\* C13: for a non-empty commit list and a non-negative max_commits the
\* Commits section of the entry lists exactly the first min(count, max_commits)
\* commits in order, then one overflow line giving count - max_commits iff
\* count > max_commits; the Files section likewise with max_files.
C13_Truncation ==
  \A p \in Procs :
    LET l == main[p] IN
    l.formatted =>
      /\ (l.commits # <<>> /\ l.cfg.max_commits >= 0) =>
           /\ HasHeading(l.entry, "### Commits")
           /\ SectionLines(l.entry, "### Commits") = Truncated(l.commits, l.cfg.max_commits)
      /\ (l.files # <<>> /\ l.cfg.max_files >= 0) =>
           /\ HasHeading(l.entry, "### Files")
           /\ SectionLines(l.entry, "### Files") = Truncated(l.files, l.cfg.max_files)

\* C13 witness: three commits under a limit of two (two lines and "1 more"),
\* and two files under a limit of two (two lines, no overflow line).
C13_Witness ==
  \E p \in Procs :
    /\ main[p].formatted
    /\ Len(main[p].commits) = 3 /\ main[p].cfg.max_commits = 2
    /\ Len(SectionLines(main[p].entry, "### Commits")) = 3
    /\ SectionLines(main[p].entry, "### Commits")[3] = OverflowLine(1)
    /\ Len(main[p].files) = 2 /\ main[p].cfg.max_files = 2
    /\ Len(SectionLines(main[p].entry, "### Files")) = 2

\* The entries one after the other, nothing between them.
Concat(es) == Join(es, "")
OneTrailingNewline(e) == EndsWith(e, "\n") /\ ~EndsWith(e, "\n\n")

\* C14 as stated: after N entries were appended in sequence to a note that
\* was absent or empty, the note reads as the N entries one after the other,
\* each followed by its own single newline and by nothing else.
C14_Original ==
  \A p \in Procs :
    LET l == main[p] IN
    (l.entries # <<>> /\ Done(l)) =>
      /\ \A i \in 1 .. Len(l.entries) : OneTrailingNewline(l.entries[i])
      /\ noteFile[NotePath] = Note(TRUE, Concat(l.entries))

\* C14 amended: after N entries were appended in sequence to a note that did
\* not exist, the note reads as the N entries one after the other, each
\* followed by its own single newline and by nothing else; where the note
\* existed without content, one newline comes before the first entry.
C14_RoundTrip ==
  \A p \in Procs :
    LET l == main[p] IN
    (l.entries # <<>> /\ Done(l)) =>
      /\ \A i \in 1 .. Len(l.entries) : OneTrailingNewline(l.entries[i])
      /\ noteFile[NotePath] =
           Note(TRUE, (IF l.first_note.exists THEN "\n" ELSE "") \o Concat(l.entries))

\* C14 witness: MaxEntries entries, not all the same, were appended to a note
\* that did not exist.
C14_Witness ==
  \E p \in Procs :
    /\ Done(main[p]) /\ Len(main[p].entries) = MaxEntries
    /\ ~main[p].first_note.exists
    /\ main[p].entries[1] # main[p].entries[2]
    /\ noteFile[NotePath].text = Concat(main[p].entries)

\* The file is not a JSON object: not JSON at all, empty, or another JSON value.
Malformed(file) == file.kind \in {"garbage", "empty", "array"}

\* C15: a malformed configuration file counts as no configuration: a run
\* that got as far as loading it does not fail there and proceeds with every
\* option at its default, as if the file were absent.
C15_Original ==
  \A p \in Procs :
    LET l == main[p] IN
    (/\ Malformed(configFile) /\ l.args.argv_ok
     /\ l.pc \notin {"idle", "start"} /\ l.failed # "root") =>
      /\ ~(l.outcome = "error" /\ l.failed = "")
      /\ l.root # "" /\ l.cfg = DefaultConfig

IsOverflowLine(ln) == StartsWith(ln, "- ...and ") /\ EndsWith(ln, " more")

FailedResolving(l) == l.outcome = "error" /\ l.end_sha # None /\ l.start_sha = None

\* A run whose start (override or stored checkpoint) names no commit fails
\* without writing; a run decides and writes only with a valid start.
InvalidStartWritesNothing ==
  \A p \in Procs :
    LET l == main[p] IN
    /\ (l.start_sha # None /\ ~ValidRev(l.start_sha)) =>
         /\ ~Decided(l) /\ FilesUntouched(l)
         /\ Done(l) => (l.outcome = "error" /\ l.exit = ExitUncaught)
    /\ (Started(l) /\ (Decided(l) \/ ~FilesUntouched(l))) => ValidRev(l.start_sha)

\* C17: resolution yields a valid commit or the invocation fails, and it is
\* unrecoverable only at the merge-base (step 3): a run that fails while
\* resolving the start failed at the merge-base query, and a start that names
\* no commit never lets the run write the note or the checkpoint.
C17_Original ==
  /\ \A p \in Procs : FailedResolving(main[p]) => main[p].failed = "merge_base"
  /\ InvalidStartWritesNothing

WorkingTreeHeading == "### Working tree (uncommitted)"
\* The status lines git printed for the dirty working tree, as list items.
DirtyStatusItems ==
  [i \in 1 .. Len(SplitLines(DirtyTree)) |-> "- " \o SplitLines(DirtyTree)[i]]

\* C18: an entry produced by an invocation has the working-tree section iff
\* the commit list and the file list of its range are both empty (the tree is
\* then dirty, or there would be no entry); the section lists exactly the
\* status lines in order and the entry has no Commits and no Files section.
\* The status is queried only when both lists are empty.
C18_WorkingTreeFallback ==
  \A p \in Procs :
    LET l == main[p]
        present == HasHeading(l.entry, WorkingTreeHeading)
    IN /\ l.status_called => (l.commits = <<>> /\ l.files = <<>>)
       /\ (Decided(l) /\ l.commits = <<>> /\ l.files = <<>>) => l.status_called
       /\ l.formatted =>
            /\ present <=> (l.commits = <<>> /\ l.files = <<>>)
            /\ present =>
                 /\ l.status_called /\ TruthyList(l.working_tree)
                 /\ SectionLines(l.entry, WorkingTreeHeading) = DirtyStatusItems
                 /\ ~HasHeading(l.entry, "### Commits")
                 /\ ~HasHeading(l.entry, "### Files")
            /\ ~present => ~l.status_called /\ ~TruthyList(l.working_tree)

\* C18 witness: an entry with the working-tree section and its two status
\* lines was appended to the note.
C18_Witness ==
  \E p \in Procs :
    /\ Done(main[p]) /\ main[p].outcome = "appended"
    /\ HasHeading(main[p].entry, WorkingTreeHeading)
    /\ Len(SectionLines(main[p].entry, WorkingTreeHeading)) = 2
    /\ EndsWith(noteFile[NotePath].text, "- ?? notes.txt\n")

\* C19: ranges chain: a run with state enabled and no override that follows a
\* run which completed and saved its checkpoint (the state file untouched in
\* between) starts at the end commit (HEAD) of that run.
C19_RangesChain ==
  \A p \in Procs :
    LET l == main[p] IN
    (/\ l.prev_end # None /\ ~l.args.no_state /\ ~Truthy(l.args.since)
     /\ l.start_sha # None) =>
      /\ l.start_sha = l.prev_end
      /\ l.state_read /\ ~l.merge_base_called
      /\ HasCheckpoint(l.state_before) /\ StoredSha(l.state_before) = l.prev_end

\* C19 witness: HEAD advanced between two such runs; the second run took its
\* start from the checkpoint the first one saved, not from the merge-base, and
\* appended the commit added in between.
C19_Witness ==
  \E p \in Procs :
    /\ main[p].prev_end = Sha(0) /\ main[p].end_sha = Sha(MaxCommit)
    /\ ~main[p].args.no_state /\ ~Truthy(main[p].args.since) /\ ~main[p].args.dry_run
    /\ main[p].start_sha = main[p].prev_end
    /\ main[p].state_read /\ ~main[p].merge_base_called
    /\ Len(main[p].commits) = MaxCommit
    /\ Done(main[p]) /\ main[p].outcome = "appended"

\* sub occurs in s.
Contains(s, sub) ==
  \E i \in 1 .. Len(s) - Len(sub) + 1 : SubSeq(s, i, i + Len(sub) - 1) = sub
Quiescent == \A q \in Procs : ~Running(main[q])
\* The run reported its entry as appended, and the note does not hold it.
Lost(p) ==
  main[p].outcome = "appended" /\ ~Contains(noteFile[NotePath].text, main[p].entry)

\* C20: with no locking, an entry can be lost only to an overlapping
\* invocation that read the note before this one wrote it; invocations that
\* do not overlap lose nothing: once all have ended, the note holds what it
\* held before, then the entry of every run that appended.
C20_SerializedKeepsEntries ==
  Quiescent =>
    \A p \in Procs :
      /\ (main[p].outcome = "appended" /\ ~main[p].overlap) =>
           /\ ~Lost(p)
           /\ StartsWith(noteFile[NotePath].text, main[p].note_before.text)
           /\ Contains(noteFile[NotePath].text, main[p].content)
      /\ Lost(p) =>
           /\ main[p].overlap
           /\ \E q \in Procs \ {p} :
                /\ main[q].outcome = "appended" /\ main[q].overlap
                /\ ~Contains(main[q].content, main[p].entry)
                /\ noteFile[NotePath].text = main[q].content

\* C20 witness: two invocations both read the note before either wrote it,
\* both reported their entry appended, the note holds only one of the two
\* entries, and the checkpoint was advanced to the end commit.
C20_Witness ==
  \E p \in Procs, q \in Procs :
    /\ p # q /\ Quiescent
    /\ main[p].outcome = "appended" /\ main[q].outcome = "appended"
    /\ main[p].exit = ExitOk /\ main[q].exit = ExitOk
    /\ main[p].content = "# Log\n" \o main[p].entry
    /\ main[q].content = "# Log\n" \o main[q].entry
    /\ Lost(p) /\ ~Lost(q)
    /\ stateFile = write_last_sha(main[p].end_sha)
    /\ stateFile # main[p].state_before

====
